---- MODULE Spec2Model ----
(***************************************************************************)
(* A model of melonix (src/app.cpp): the grain segmentation of preproc,    *)
(* the marker-driven warp map (sample2Time, time2Sample, time2PitchBend,   *)
(* duration) with its three caches, the playback callback, and the input   *)
(* handlers that edit markers and the cursor from the UI thread.           *)
(*                                                                         *)
(* Conventions.                                                            *)
(*  - Buffer indices are 0-based as in the source: data is a function on   *)
(*    0..N-1.  A sample is kept by its sign only (-1: negative, 1: not     *)
(*    negative), which is all the zero-crossing test reads.                *)
(*  - past is the memory that follows the vector's storage: a read of      *)
(*    data[i] with i >= data.size() is undefined behaviour, modelled as a  *)
(*    read of an arbitrary (but fixed) value chosen in Init.               *)
(*  - The source's numeric constants (1500, 8192, 1024, 100) are scaled    *)
(*    down to small numbers; they are bounds of the model.                 *)
(***************************************************************************)
EXTENDS Integers, Sequences, FiniteSets, TLC

\* ------------------------------------------------------------------ bounds
\* preferredGrainSize (src/app.cpp:18 sets 1500), scaled.
preferredGrainSize == 2
\* GrainSpectrSize (src/app.cpp:129 sets 2 * 4096), scaled.
GrainSpectrSize == 3
\* estimateGrainSize returns a whole number of periods that is at least
\* preferredGrainSize: the excess over preferredGrainSize is below one period.
MaxExcess == 1
\* Longest sample buffer of the segmentation and playback specifications.
MaxLen == 9
\* The output device asks for at most MaxDur samples per callback (the source
\* opens the device with 1024, src/app.cpp:199).
MaxDur == 3
\* Steps of the fade-out loop of a Stopped callback (100 at src/app.cpp:219),
\* scaled.
FadeSteps == 2
\* Largest marker sample the insert command is let to create.
MaxSample == 6
\* Most markers the insert command is let to create.
MaxMarkers == 1
\* Number of samples of the document the editor session works on.
DocLen == 6
\* Largest dTime, in sample periods, a drag or a field edit is let to set.
MaxDT == 1
\* Bits of the significand of a double in the rounding model (the source's
\* double has 53).
Precision == 5
\* Samples per second of the document in the rounding model.
sampleRate == 11
\* Marker lists of the warp map's own specification: the number of markers
WarpMarkers == 2
\* and the sample periods a marker is dragged to either side.
WarpDT == 2
\* Entries the caches hold before the warp map's specification stops querying.
MaxCached == 3
\* Markers of the specification of the marker edits.
EditMarkers == 2
\* Octaves up and down within which pow(2, x) is a finite, non-zero double
\* (the source's double has 1023 up and 1074 down).
MaxExponent == 3
\* Sample periods the queries of the memoization's specification span, on a
\* grid of half periods,
MemoSpan == 3
\* and the cache entries after which it stops querying.
MemoCached == 2

Signs == {-1, 1}

\* C++ integer division truncates toward zero.
TruncDiv(a, b) ==
  IF (a >= 0) = (b > 0) \/ a = 0
    THEN (IF a >= 0 THEN a ELSE -a) \div (IF b >= 0 THEN b ELSE -b)
    ELSE -((IF a >= 0 THEN a ELSE -a) \div (IF b >= 0 THEN b ELSE -b))

Max(a, b) == IF a >= b THEN a ELSE b
Min(a, b) == IF a <= b THEN a ELSE b

VARIABLES
  data,            \* the sample buffer (signs), a function on 0..N-1
  past,            \* memory following the buffer, a function on 0..PastLen-1
  grains,          \* the grain index: sequence of [start, len, drift], by start
  segpc,           \* position of preproc: "init", "loop", "done"
  start,           \* preproc's local start
  grainSize,       \* preproc's local grainSize
  nextEstimation,  \* preproc's local nextEstimation
  markers,         \* sequence of [sample, note, dTime, pitchBend]
  sample2TimeCache,    \* sample -> time
  time2SampleCache,    \* int(time * sampleRate) -> sample
  time2PitchBendCache, \* int(time * sampleRate) -> pitch bend
  cursorSec,       \* the playback cursor, a time
  isAudioPlaying,
  restWav,         \* the residual buffer: the buffer position each sample was
                   \* read from (grain.start + idx)
  prevGrain,       \* the grain rendered last, [start, len]; start -1: none yet
  paused,          \* whether the audio device is paused (no callbacks)
  dur,             \* samples the device asks for per callback
  w,               \* the output buffer of the last callback and the memory
                   \* around it, a function on WCells(dur)
  ret,             \* how the last callback returned:
                   \* "none", "stopped", "miss", "delivered", "hang"
  lock,            \* who holds the audio lock: "none" or "audio" (a critical
                   \* section of the UI thread is one step, taken when "none")
  selectedMarker,  \* index into markers, 0 for std::end(markers)
  ui,              \* the UI thread: [pc, time, note, sample, it, then]; a caller
                   \* of the warp map's queries: [pc, arg, mid, res]
  delivered,       \* samples copied from restWav to the output since playback
                   \* was last toggled or the cursor last set by a command
  dropped          \* residual samples the last callback cleared undelivered

segvars == <<data, past, grains, segpc, start, grainSize, nextEstimation>>
warpvars == <<markers, sample2TimeCache, time2SampleCache, time2PitchBendCache>>
playvars == <<cursorSec, isAudioPlaying, restWav, prevGrain, paused, dur, w, ret,
              delivered, dropped, lock>>
uivars == <<selectedMarker, ui>>
vars == <<segvars, warpvars, playvars, uivars>>

\* ------------------------------------------------------------ segmentation
size(d) == Cardinality(DOMAIN d)

\* The values estimateGrainSize can return (the FFT itself is not modelled).
estimateGrainSize == preferredGrainSize .. (preferredGrainSize + MaxExcess)

\* Cells of memory the closest-first search can read past the buffer's end.
PastLen == (preferredGrainSize + MaxExcess) \div 2 + 1

\* data[i] as the build reads it: the buffer, or the memory after it.
At(d, p, i) == IF i < size(d) THEN d[i] ELSE p[i - size(d)]

isZeroCrossing(d, p, i) == At(d, p, i) < 0 /\ At(d, p, i + 1) >= 0

\* idx of iteration i of the closest-first search: (i % 2 == 0 ? i / 2 : -i / 2).
SearchIdx(st, g, i) == st + g + (IF i % 2 = 0 THEN i \div 2 ELSE TruncDiv(-i, 2))

\* The closest-first search from iteration i on: the first idx that is a
\* zero-crossing, -1 when none of the iterations i..g-1 finds one.
RECURSIVE ClosestFrom(_, _, _, _, _)
ClosestFrom(d, p, st, g, i) ==
  IF i >= g THEN -1
  ELSE IF isZeroCrossing(d, p, SearchIdx(st, g, i)) THEN SearchIdx(st, g, i)
  ELSE ClosestFrom(d, p, st, g, i + 1)

\* (mutant) a scan that accepts any negative sample, whatever follows it.
RECURSIVE ScanFromNegativeOnly(_, _, _)
ScanFromNegativeOnly(d, p, i) ==
  IF i >= size(d) - 1 THEN -1
  ELSE IF At(d, p, i) < 0 THEN i
  ELSE ScanFromNegativeOnly(d, p, i + 1)

\* The fallback forward scan from index i on: the first zero-crossing below
\* data.size() - 1, -1 when there is none.
RECURSIVE ScanFrom(_, _, _)
ScanFrom(d, p, i) ==
  IF i >= size(d) - 1 THEN -1
  ELSE IF isZeroCrossing(d, p, i) THEN i
  ELSE ScanFrom(d, p, i + 1)

\* The index where the grain that starts at st ends, -1 when the loop breaks.
GrainEnd(d, p, st, g) ==
  LET c == ClosestFrom(d, p, st, g, 0) IN
  IF c # -1 THEN c ELSE ScanFrom(d, p, st + g + g \div 2)

\* (mutant) the span's length and the drift exchanged.
GrainLenAsDrift(st, e, g) == [start |-> st, len |-> e - st - g, drift |-> e - st]
Grain(st, e, g) == [start |-> st, len |-> e - st, drift |-> e - st - g]

\* while (start < static_cast<int>(data.size() - grainSize - 1))
SegGuard(d, st, g) == st < size(d) - g - 1

PreprocBegin ==
  /\ segpc = "init"
  /\ grains' = <<>>
  /\ start' = 0
  /\ \E g \in estimateGrainSize : grainSize' = g
  /\ nextEstimation' = GrainSpectrSize
  /\ segpc' = "loop"
  /\ UNCHANGED <<data, past, warpvars, playvars, uivars>>

\* One iteration of the segmentation loop.
PreprocIter ==
  /\ segpc = "loop"
  /\ SegGuard(data, start, grainSize)
  /\ LET e == GrainEnd(data, past, start, grainSize) IN
       IF e = -1
         THEN /\ segpc' = "done"
              /\ UNCHANGED <<grains, start, grainSize, nextEstimation>>
         ELSE /\ grains' = Append(grains, Grain(start, e, grainSize))
              /\ start' = e
              /\ IF e > nextEstimation
                   THEN /\ nextEstimation' = nextEstimation + GrainSpectrSize
                        /\ \E g \in estimateGrainSize : grainSize' = g
                   ELSE UNCHANGED <<nextEstimation, grainSize>>
              /\ segpc' = "loop"
  /\ UNCHANGED <<data, past, warpvars, playvars, uivars>>

PreprocEnd ==
  /\ segpc = "loop"
  /\ ~SegGuard(data, start, grainSize)
  /\ segpc' = "done"
  /\ UNCHANGED <<data, past, grains, start, grainSize, nextEstimation>>
  /\ UNCHANGED <<warpvars, playvars, uivars>>

\* ---------------------------------------------------------------- numbers
Abs(x) == IF x >= 0 THEN x ELSE -x

RECURSIVE GCD(_, _)
GCD(a, b) == IF b = 0 THEN a ELSE GCD(b, a % b)

RECURSIVE LCMUpTo(_)
LCMUpTo(n) == IF n <= 1 THEN 1 ELSE LET l == LCMUpTo(n - 1) IN (l * n) \div GCD(l, n)

\* Times are whole numbers of 1 / (sampleRate * TimeScale) seconds, so that one
\* sample period is TimeScale units.  With marker samples up to MaxSample and
\* dTime a whole number of sample periods, every division of sample2Time is
\* exact, and the double arithmetic of the source is modelled without rounding.
TimeScale == LCMUpTo(MaxSample)

\* A pitch bend or a rate is a fraction <<n, d>> in lowest terms, d > 0;
\* d = 0 stands for the result of a division by zero (inf or NaN).
RNorm(n, d) ==
  IF d = 0 THEN <<n, 0>>
  ELSE LET g == GCD(Abs(n), Abs(d)) IN
       IF d > 0 THEN <<n \div g, d \div g>> ELSE <<(-n) \div g, (-d) \div g>>
RInt(k) == <<k, 1>>
RAdd(a, b) == IF a[2] = 0 \/ b[2] = 0 THEN <<0, 0>>
              ELSE RNorm(a[1] * b[2] + b[1] * a[2], a[2] * b[2])
RSub(a, b) == RAdd(a, <<-b[1], b[2]>>)
RMul(a, b) == IF a[2] = 0 \/ b[2] = 0 THEN <<0, 0>> ELSE RNorm(a[1] * b[1], a[2] * b[2])
RDiv(a, b) == IF a[2] = 0 \/ b[2] = 0 \/ b[1] = 0 THEN <<0, 0>>
              ELSE RNorm(a[1] * b[2], a[2] * b[1])
RFinite(a) == a[2] # 0
RLess(a, b) == a[1] * b[2] < b[1] * a[2]
RAbs(a) == <<Abs(a[1]), a[2]>>
RFloor(a) == a[1] \div a[2]

RECURSIVE Pow2(_)
Pow2(k) == IF k <= 0 THEN 1 ELSE 2 * Pow2(k - 1)

\* ---------------------------------------------------------------- warp map
\* The three caches travel together as [s2t, t2s, t2pb]; each query returns
\* [v |-> its value, c |-> the caches after it].
Put(f, k, v) == (k :> v) @@ f

\* static_cast<int>(val * sampleRate)
TimeKey(val) == TruncDiv(val, TimeScale)

\* (mutant) a loop of sample2Time that keeps the nominal rate inside an
\* interval and adds dTime at the marker only.
RECURSIVE S2TFromNominal(_, _, _, _, _)
S2TFromNominal(mk, i, prevSample, prevTime, val) ==
  IF i > Len(mk) THEN prevTime + (val - prevSample) * TimeScale
  ELSE LET rightTime == prevTime + (mk[i].sample - prevSample) * TimeScale + mk[i].dTime IN
       IF val > prevSample /\ val <= mk[i].sample
         THEN prevTime + (val - prevSample) * TimeScale
         ELSE S2TFromNominal(mk, i + 1, mk[i].sample, rightTime, val)

\* The loop of sample2Time from marker i on.
RECURSIVE S2TFrom(_, _, _, _, _)
S2TFrom(mk, i, prevSample, prevTime, val) ==
  IF i > Len(mk) THEN prevTime + (val - prevSample) * TimeScale
  ELSE LET rightTime == prevTime + (mk[i].sample - prevSample) * TimeScale + mk[i].dTime IN
       IF val > prevSample /\ val <= mk[i].sample
         THEN prevTime + TruncDiv((val - prevSample) * (rightTime - prevTime),
                                  mk[i].sample - prevSample)
         ELSE S2TFrom(mk, i + 1, mk[i].sample, rightTime, val)

sample2Time(val, mk, c) ==
  IF val <= 0 THEN [v |-> val * TimeScale, c |-> c]
  ELSE IF val \in DOMAIN c.s2t THEN [v |-> c.s2t[val], c |-> c]
  ELSE LET r == S2TFrom(mk, 1, 0, 0, val) IN
       [v |-> r, c |-> [c EXCEPT !.s2t = Put(@, val, r)]]

\* The loop of time2Sample from marker i on; the double result is converted
\* to int (truncated toward zero) on return.
RECURSIVE T2SFrom(_, _, _, _, _)
T2SFrom(mk, i, prevSample, prevTime, val) ==
  IF i > Len(mk) THEN TruncDiv(prevSample * TimeScale + (val - prevTime), TimeScale)
  ELSE LET rightTime == prevTime + (mk[i].sample - prevSample) * TimeScale + mk[i].dTime IN
       IF val > prevTime /\ val <= rightTime
         THEN TruncDiv(prevSample * (rightTime - prevTime)
                         + (val - prevTime) * (mk[i].sample - prevSample),
                       rightTime - prevTime)
         ELSE T2SFrom(mk, i + 1, mk[i].sample, rightTime, val)

time2Sample(val, mk, c) ==
  IF val <= 0 THEN [v |-> TruncDiv(val, TimeScale), c |-> c]
  ELSE IF TimeKey(val) \in DOMAIN c.t2s THEN [v |-> c.t2s[TimeKey(val)], c |-> c]
  ELSE LET r == T2SFrom(mk, 1, 0, 0, val) IN
       [v |-> r, c |-> [c EXCEPT !.t2s = Put(@, TimeKey(val), r)]]

\* (mutant) a duration() that resolves data.size() instead of the last sample.
durationOfSize(mk, n, c) == sample2Time(n, mk, c)
\* duration() for a buffer of n samples.
duration(mk, n, c) == sample2Time(n - 1, mk, c)

\* (mutant) a loop of time2PitchBend that returns the right marker's pitchBend
\* for the whole interval.
RECURSIVE T2PFromHold(_, _, _, _, _, _)
T2PFromHold(mk, i, prevSample, prevTime, prevPitchBend, val) ==
  IF i > Len(mk) THEN [hit |-> FALSE, prevTime |-> prevTime, prevPitchBend |-> prevPitchBend,
                       v |-> RInt(0)]
  ELSE LET rightTime == prevTime + (mk[i].sample - prevSample) * TimeScale + mk[i].dTime IN
       IF val > prevTime /\ val <= rightTime
         THEN [hit |-> TRUE, prevTime |-> prevTime, prevPitchBend |-> prevPitchBend,
               v |-> mk[i].pitchBend]
         ELSE T2PFromHold(mk, i + 1, mk[i].sample, rightTime, mk[i].pitchBend, val)

\* The loop of time2PitchBend from marker i on: [v, c], or [hit |-> FALSE]
\* when val lies in no marker interval.
RECURSIVE T2PFrom(_, _, _, _, _, _)
T2PFrom(mk, i, prevSample, prevTime, prevPitchBend, val) ==
  IF i > Len(mk) THEN [hit |-> FALSE, prevTime |-> prevTime, prevPitchBend |-> prevPitchBend,
                       v |-> RInt(0)]
  ELSE LET rightTime == prevTime + (mk[i].sample - prevSample) * TimeScale + mk[i].dTime IN
       IF val > prevTime /\ val <= rightTime
         THEN [hit |-> TRUE, prevTime |-> prevTime, prevPitchBend |-> prevPitchBend,
               v |-> RAdd(prevPitchBend,
                          RDiv(RMul(RInt(val - prevTime), RSub(mk[i].pitchBend, prevPitchBend)),
                               RInt(rightTime - prevTime)))]
         ELSE T2PFrom(mk, i + 1, mk[i].sample, rightTime, mk[i].pitchBend, val)

time2PitchBend(val, mk, n, c) ==
  IF val <= 0 THEN [v |-> RInt(0), c |-> c]
  ELSE IF TimeKey(val) \in DOMAIN c.t2pb THEN [v |-> c.t2pb[TimeKey(val)], c |-> c]
  ELSE LET r == T2PFrom(mk, 1, 0, 0, RInt(0), val) IN
       IF r.hit THEN [v |-> r.v, c |-> [c EXCEPT !.t2pb = Put(@, TimeKey(val), r.v)]]
       ELSE LET d1 == duration(mk, n, c) IN
            IF val > d1.v THEN [v |-> RInt(0), c |-> d1.c]
            ELSE LET d2 == duration(mk, n, d1.c)
                     x == RAdd(r.prevPitchBend,
                               RDiv(RMul(RInt(val - r.prevTime), RSub(RInt(0), r.prevPitchBend)),
                                    RInt(d2.v - r.prevTime)))
                 IN [v |-> x, c |-> [d2.c EXCEPT !.t2pb = Put(@, TimeKey(val), x)]]

\* ----------------------------------------------------------------- playback
\* The fractional resample phase; the source reads it and never assigns it.
bias == 0

\* pow(2, pitchBend / 12), exact where pitchBend is a whole number of octaves
\* and interpolated linearly between two octaves elsewhere; a double holds no
\* power of two beyond MaxExponent octaves: pow returns 0 below and infinity
\* above.
Rate(pb) ==
  IF ~RFinite(pb) THEN <<0, 0>>
  ELSE IF RLess(pb, RInt(-12 * MaxExponent)) THEN <<0, 1>>
  ELSE IF RLess(RInt(12 * MaxExponent), pb) THEN <<1, 0>>
  ELSE LET k == pb[1] \div (12 * pb[2])
           f == <<pb[1] - k * 12 * pb[2], 12 * pb[2]>>
           m == RAdd(RInt(1), f)
       IN IF k >= 0 THEN RMul(RInt(Pow2(k)), m) ELSE RDiv(m, RInt(Pow2(-k)))

\* The overlap fractions (rand() % 200 + 700) / 1000. draws, in thousandths:
\* the smallest, a middle and the largest one.
Overlaps == {700, 800, 899}

\* idx of iteration i of a resampling loop: the integral part of i * rate + bias.
ResampleIdx(i, rate) == RFloor(RAdd(RMul(RInt(i), rate), RInt(bias)))

\* The number of iterations a resampling loop makes over a grain of len
\* samples before idx >= grain.size(), counted from iteration i on.
RECURSIVE ResampleCount(_, _, _)
ResampleCount(i, rate, len) ==
  IF ResampleIdx(i, rate) >= len THEN 0 ELSE 1 + ResampleCount(i + 1, rate, len)

\* The samples one grain yields: the buffer position of grain[idx] per iteration.
ResampleRun(grain, rate) ==
  [i \in 1 .. ResampleCount(0, rate, grain.len) |-> grain.start + ResampleIdx(i - 1, rate)]

\* (mutant) an upper_bound: the first grain whose start is after sample.
UpperBound(gs, sample) ==
  LET hit == {i \in 1 .. Len(gs) : gs[i].start > sample} IN
  IF hit = {} THEN 0 ELSE CHOOSE i \in hit : \A j \in hit : i <= j

\* grains.lower_bound(sample): the index of the first grain whose start is at
\* or after sample, 0 for end().
LowerBound(gs, sample) ==
  LET hit == {i \in 1 .. Len(gs) : gs[i].start >= sample} IN
  IF hit = {} THEN 0 ELSE CHOOSE i \in hit : \A j \in hit : i <= j

\* static_cast<size_t>(grain.size() / rate * overlap)
GrainPart(len, rate, ov) == (len * rate[2] * ov) \div (rate[1] * 1000)

\* The crossfade branch: the run is written over the last grainPart samples of
\* the residual and past its end.
Crossfade(rest, run, grainPart) ==
  LET wavIdx == IF Len(rest) > grainPart THEN Len(rest) - grainPart ELSE 0 IN
  [k \in 1 .. Max(Len(rest), wavIdx + Len(run)) |->
     IF k > wavIdx /\ k <= wavIdx + Len(run) THEN run[k - wavIdx] ELSE rest[k]]

\* restWav.push_back per resampled sample: the run appended to the residual.
DirectAppend(rest, run) == rest \o run

\* Iterations the fill loop makes at most when each adds a sample.
MaxIters == MaxDur + preferredGrainSize

\* The fill loop of a Playing callback, as the set of states it can end in
\* (one per sequence of overlaps drawn by rand() in the crossfade branch).
\* st is [rest, tmpCursor, prev, c, it, out]: the residual, the virtual
\* cursor, prevGrain, the caches, the number of iterations made and "run",
\* "miss" (a grain lookup miss) or "hang" (the loop would not end).
RECURSIVE FillLoop(_, _, _, _, _, _)
FillLoop(st, mk, gs, n, d, sampleOffset) ==
  IF Len(st.rest) >= d + preferredGrainSize THEN {st}
  ELSE IF st.it >= MaxIters THEN {[st EXCEPT !.out = "hang"]}
  ELSE
    LET s1 == time2Sample(st.tmpCursor, mk, st.c)
        sample == s1.v + sampleOffset
        p1 == time2PitchBend(st.tmpCursor, mk, n, s1.c)
        rate == Rate(p1.v)
        it == LowerBound(gs, sample)
    IN IF it = 0 THEN {[st EXCEPT !.c = p1.c, !.out = "miss"]}
       ELSE IF ~RFinite(rate) \/ rate[1] <= 0 THEN {[st EXCEPT !.c = p1.c, !.out = "hang"]}
       ELSE
         LET grain == gs[it]
             run == ResampleRun(grain, rate)
             \* nextGrainFirstSample resolves the cursor one run ahead
             s2 == time2Sample(st.tmpCursor + Len(run) * TimeScale, mk, p1.c)
             diff == grain.start - (st.prev.start + st.prev.len)
             rests == IF diff = 0
                        THEN {DirectAppend(st.rest, run)}
                        ELSE {Crossfade(st.rest, run, GrainPart(grain.len, rate, ov)) :
                                ov \in Overlaps}
         IN UNION {FillLoop([rest |-> rest2,
                             tmpCursor |-> st.tmpCursor + (Len(rest2) - Len(st.rest)) * TimeScale,
                             prev |-> [start |-> grain.start, len |-> grain.len],
                             c |-> s2.c, it |-> st.it + 1, out |-> "run"],
                            mk, gs, n, d, sampleOffset) : rest2 \in rests}

\* The cells of the output buffer (0 .. d-1) together with the cells around it
\* that the fade-out loop of a Stopped callback reaches.
WCells(d) == Min(0, d - FadeSteps + 1) .. d
Stale == <<"stale", 0>>
Zero == <<"zero", 0>>
Smp(pos) == <<"smp", pos>>
\* The product of a cell and the fade factor .01 * i.
Faded(cell) == IF cell = Zero THEN Zero ELSE <<"scaled", cell[2]>>

\* The Stopped branch: dur zeros, then the fade-out loop from w[dur] downward.
StoppedOutput(d) ==
  LET zeroed == [k \in WCells(d) |-> IF k >= 0 /\ k < d THEN Zero ELSE Stale] IN
  [k \in WCells(d) |-> IF k > d - FadeSteps THEN Faded(zeroed[k]) ELSE zeroed[k]]

\* The delivery at the end of a Playing callback: the first sz residual samples.
DeliveredOutput(d, rest, sz) ==
  [k \in WCells(d) |-> IF k >= 0 /\ k < sz THEN Smp(rest[k + 1]) ELSE Stale]

Caches == [s2t |-> sample2TimeCache, t2s |-> time2SampleCache, t2pb |-> time2PitchBendCache]
SetCaches(c) ==
  /\ sample2TimeCache' = c.s2t
  /\ time2SampleCache' = c.t2s
  /\ time2PitchBendCache' = c.t2pb

\* (mutant) a Stopped branch that forgets restWav.clear().
StoppedKeepsResidual(rest) == rest
StoppedResidual(rest) == <<>>

\* (mutant) the cursor advanced by what the fill loop produced into the residual
\* instead of by what was delivered.
CursorAfterProduced(cursor, sz, produced) == cursor + produced * TimeScale
\* cursorSec += 1. * sz / sampleRate
CursorAfter(cursor, sz, produced) == cursor + sz * TimeScale
\* (mutant) a delivery of no samples.
DeliverNothing(rest, d) == 0
\* sz = std::min(restWav.size(), dur)
DeliverCount(rest, d) == Min(Len(rest), d)

\* (mutant) a range test that lets the cursor sit at duration().
CursorOutsideExclusive(cursor, d) == cursor < 0 \/ cursor > d
\* cursorSec < 0 || cursorSec >= duration()
CursorOutside(cursor, d) == cursor < 0 \/ cursor >= d

\* App::playback(w, dur), whole.
playback ==
  LET d0 == IF cursorSec < 0 THEN [v |-> 0, c |-> Caches]
            ELSE duration(markers, size(data), Caches)
      playing == isAudioPlaying /\ ~CursorOutside(cursorSec, d0.v)
  IN
  IF ~playing
    THEN /\ isAudioPlaying' = FALSE
         /\ paused' = TRUE
         /\ w' = StoppedOutput(dur)
         /\ restWav' = StoppedResidual(restWav)
         /\ ret' = "stopped"
         /\ SetCaches(d0.c)
         /\ dropped' = Len(restWav)
         /\ UNCHANGED <<cursorSec, prevGrain, delivered>>
    ELSE
      \E st \in FillLoop([rest |-> restWav, tmpCursor |-> cursorSec, prev |-> prevGrain,
                           c |-> d0.c, it |-> 0, out |-> "run"],
                          markers, grains, size(data), dur, Len(restWav)) :
        /\ SetCaches(st.c)
        /\ prevGrain' = st.prev
        /\ paused' = paused
        /\ dropped' = 0
        /\ IF st.out = "run"
             THEN LET sz == DeliverCount(st.rest, dur) IN
                  /\ w' = DeliveredOutput(dur, st.rest, sz)
                  /\ restWav' = SubSeq(st.rest, sz + 1, Len(st.rest))
                  /\ cursorSec' = CursorAfter(cursorSec, sz, Len(st.rest) - Len(restWav))
                  /\ delivered' = delivered + sz
                  /\ ret' = "delivered"
                  /\ UNCHANGED isAudioPlaying
             ELSE /\ w' = [k \in WCells(dur) |-> Stale]
                  /\ restWav' = st.rest
                  /\ isAudioPlaying' = (st.out = "hang")
                  /\ ret' = st.out
                  /\ UNCHANGED <<cursorSec, delivered>>

Buffers(n) == [0 .. n - 1 -> Signs]

\* ------------------------------------------------------------ audio thread
\* The device invokes the callback with the audio lock held, and only while
\* it is not paused.
AudioCallback ==
  /\ ~paused
  /\ lock = "none"
  /\ lock' = "audio"
  /\ UNCHANGED <<segvars, warpvars, cursorSec, isAudioPlaying, restWav, prevGrain, paused,
                 dur, w, ret, delivered, dropped, uivars>>

Playback ==
  /\ lock = "audio"
  /\ playback
  /\ lock' = "none"
  /\ UNCHANGED <<segvars, markers, dur, uivars>>

\* ---------------------------------------------------------------- UI thread
Idle == [pc |-> "idle", time |-> 0, note |-> 0, sample |-> 0, it |-> 0, then |-> "idle"]

\* The inputs of the handlers.  A pixel x is the time
\* x * rangeTime / Width + startTime; the view (startTime, rangeTime, which
\* the wheel changes between events) is not modelled, the times are.
\* A time past the end of every document the session can have.
Far == (DocLen + MaxMarkers * MaxDT + 1) * TimeScale
ClickTimes == {2 * TimeScale}
ClickNotes == {0}
ScrubTimes == {0, Far}
\* The time of a column glDraw resolves, and the width of a column.
ViewTimes == {2 * TimeScale}
ColumnTime == 2 * TimeScale
\* 4 * rangeTime / Width, the view zoomed out to show all of the document.
CursorStep == Far
\* dx * rangeTime / Width and dy * rangeNote / Height of a mouse motion.
Drags == {<<TimeScale, 0>>, <<-TimeScale, 0>>, <<0, -12>>, <<0, 12>>}
\* Values typed into the dt and the pitch bend field.
DTimeInputs == {k * TimeScale : k \in 0 .. MaxDT}
PitchBendInputs == {0, 12}
\* The ranges the model keeps a marker's dTime and pitchBend in.
DTimeOk(v) == v >= 0 /\ v <= MaxDT * TimeScale
PitchBendOk(v) == ~RLess(v, RInt(0)) /\ ~RLess(RInt(12), v)
\* 8 * rangeTime / Width and 8 * rangeNote / Height: the hit window of a click.
HitTime == 2 * TimeScale
HitNote == RInt(1)

\* (mutant) a std::sort that leaves the list as it is.
KeptOrder(mk) == {mk}

\* std::sort(markers, by sample): a permutation of the list that is sorted
\* by sample; the order of markers that share a sample is unspecified.
SortedPerms(mk) ==
  LET I == 1 .. Len(mk)
      P == {q \in [I -> I] : /\ \A i, j \in I : i # j => q[i] # q[j]
                             /\ \A i, j \in I : i < j => mk[q[i]].sample <= mk[q[j]].sample}
  IN {[i \in I |-> mk[q[i]]] : q \in P}

\* std::clamp(v, lo, hi)
Clamp(v, lo, hi) == IF v < lo THEN lo ELSE IF hi < v THEN hi ELSE v

\* The find_if of mouseButton from marker i on: the first marker within the hit
\* window of (time, note), 0 for std::end(markers); each marker visited is
\* resolved by sample2Time.
RECURSIVE HitFrom(_, _, _, _, _)
HitFrom(mk, i, time, note, c) ==
  IF i > Len(mk) THEN [it |-> 0, c |-> c]
  ELSE LET t == sample2Time(mk[i].sample, mk, c) IN
       IF /\ Abs(t.v - time) < HitTime
          /\ RLess(RAbs(RAdd(RSub(mk[i].note, RInt(note)), mk[i].pitchBend)), HitNote)
         THEN [it |-> i, c |-> t.c]
         ELSE HitFrom(mk, i + 1, time, note, t.c)

\* drawMarkers resolves every marker by sample2Time.
RECURSIVE DrawMarkersFrom(_, _, _)
DrawMarkersFrom(mk, i, c) ==
  IF i > Len(mk) THEN c ELSE DrawMarkersFrom(mk, i + 1, sample2Time(mk[i].sample, mk, c).c)

Remove(mk, i) == [k \in 1 .. Len(mk) - 1 |-> IF k < i THEN mk[k] ELSE mk[k + 1]]

FirstWithSample(mk, sample) ==
  LET hit == {i \in 1 .. Len(mk) : mk[i].sample = sample} IN
  IF hit = {} THEN 0 ELSE CHOOSE i \in hit : \A j \in hit : i <= j

audiovars == <<restWav, prevGrain, w, ret, dur, dropped>>
cachevars == <<sample2TimeCache, time2SampleCache, time2PitchBendCache>>

\* mouseButton, left button in the marker area, while the list holds fewer
\* than n markers: the sort under the lock.
MouseButtonLeftUpTo(n) ==
  /\ ui.pc = "idle" /\ lock = "none"
  /\ Len(markers) < n
  /\ \E sorted \in SortedPerms(markers) : markers' = sorted
  /\ \E t \in ClickTimes, nt \in ClickNotes :
       ui' = [Idle EXCEPT !.pc = "mb_t2s", !.time = t, !.note = nt]
  /\ UNCHANGED <<segvars, cachevars, audiovars, cursorSec, isAudioPlaying, paused,
                 delivered, lock, selectedMarker>>

MouseButtonLeft == MouseButtonLeftUpTo(MaxMarkers)

\* lock; sample = time2Sample(time); unlock
MouseButtonLeftSample ==
  /\ ui.pc = "mb_t2s" /\ lock = "none"
  /\ LET r == time2Sample(ui.time, markers, Caches) IN
       /\ SetCaches(r.c)
       /\ ui' = [ui EXCEPT !.pc = "mb_hit", !.sample = r.v]
  /\ UNCHANGED <<segvars, markers, audiovars, cursorSec, isAudioPlaying, paused,
                 delivered, lock, selectedMarker>>

\* The find_if of the left button, outside the lock: a hit selects the marker.
MouseButtonLeftFind ==
  /\ ui.pc = "mb_hit"
  /\ LET h == HitFrom(markers, 1, ui.time, ui.note, Caches) IN
       /\ SetCaches(h.c)
       /\ IF h.it = 0
            THEN ui' = [ui EXCEPT !.pc = "mb_add"] /\ UNCHANGED selectedMarker
            ELSE ui' = Idle /\ selectedMarker' = h.it
  /\ UNCHANGED <<segvars, markers, audiovars, cursorSec, isAudioPlaying, paused,
                 delivered, lock>>

\* lock; pitchBend = time2PitchBend(time); push_back; sort; unlock
MouseButtonLeftAdd ==
  /\ ui.pc = "mb_add" /\ lock = "none"
  /\ LET pb == time2PitchBend(ui.time, markers, size(data), Caches)
         m == [sample |-> ui.sample, note |-> RSub(RInt(ui.note), pb.v), dTime |-> 0,
               pitchBend |-> pb.v]
     IN /\ SetCaches(pb.c)
        /\ \E sorted \in SortedPerms(Append(markers, m)) : markers' = sorted
  /\ ui' = [ui EXCEPT !.pc = "inval", !.then = "mb_select"]
  /\ UNCHANGED <<segvars, audiovars, cursorSec, isAudioPlaying, paused, delivered, lock,
                 selectedMarker>>

\* (mutant) an invalidateCache that leaves time2SampleCache alone.
ClearedKeepTime2Sample(c) == [s2t |-> <<>>, t2s |-> c.t2s, t2pb |-> <<>>]
\* The caches after invalidateCache.
Cleared(c) == [s2t |-> <<>>, t2s |-> <<>>, t2pb |-> <<>>]

\* invalidateCache: lock; the three caches cleared; unlock.
InvalidateCache ==
  /\ ui.pc = "inval" /\ lock = "none"
  /\ SetCaches(Cleared(Caches))
  /\ ui' = IF ui.then = "idle" THEN Idle ELSE [ui EXCEPT !.pc = ui.then, !.then = "idle"]
  /\ UNCHANGED <<segvars, markers, audiovars, cursorSec, isAudioPlaying, paused,
                 delivered, lock, selectedMarker>>

\* selectedMarker = find_if(m.sample == sample), after invalidateCache.
MouseButtonLeftSelect ==
  /\ ui.pc = "mb_select"
  /\ selectedMarker' = FirstWithSample(markers, ui.sample)
  /\ ui' = Idle
  /\ UNCHANGED <<segvars, warpvars, audiovars, cursorSec, isAudioPlaying, paused,
                 delivered, lock>>

\* mouseButton, right button: the sort under the lock.
MouseButtonRight ==
  /\ ui.pc = "idle" /\ lock = "none"
  /\ \E sorted \in SortedPerms(markers) : markers' = sorted
  /\ \E t \in ClickTimes, nt \in ClickNotes :
       ui' = [Idle EXCEPT !.pc = "mb_hit_r", !.time = t, !.note = nt]
  /\ UNCHANGED <<segvars, cachevars, audiovars, cursorSec, isAudioPlaying, paused,
                 delivered, lock, selectedMarker>>

\* The find_if of the right button, outside the lock.
MouseButtonRightFind ==
  /\ ui.pc = "mb_hit_r"
  /\ LET h == HitFrom(markers, 1, ui.time, ui.note, Caches) IN
       /\ SetCaches(h.c)
       /\ ui' = IF h.it = 0 THEN Idle ELSE [ui EXCEPT !.pc = "mb_erase", !.it = h.it]
  /\ UNCHANGED <<segvars, markers, audiovars, cursorSec, isAudioPlaying, paused,
                 delivered, lock, selectedMarker>>

\* lock; markers.erase(it); selectedMarker = end; unlock
MouseButtonRightErase ==
  /\ ui.pc = "mb_erase" /\ lock = "none"
  /\ markers' = Remove(markers, ui.it)
  /\ selectedMarker' = 0
  /\ ui' = [ui EXCEPT !.pc = "inval", !.then = "idle"]
  /\ UNCHANGED <<segvars, cachevars, audiovars, cursorSec, isAudioPlaying, paused,
                 delivered, lock>>

\* lock; cursorSec = std::clamp(time, 0., duration()); unlock
SetCursor(t) ==
  /\ LET d == duration(markers, size(data), Caches) IN
       /\ cursorSec' = Clamp(t, 0, d.v)
       /\ SetCaches(d.c)
  /\ delivered' = 0
  /\ ui' = Idle
  /\ UNCHANGED <<segvars, markers, audiovars, isAudioPlaying, paused, lock, selectedMarker>>

\* mouseButton, left button below the marker area: the sort under the lock.
MouseButtonScrub ==
  /\ ui.pc = "idle" /\ lock = "none"
  /\ \E sorted \in SortedPerms(markers) : markers' = sorted
  /\ \E t \in ScrubTimes : ui' = [Idle EXCEPT !.pc = "mb_scrub", !.time = t]
  /\ UNCHANGED <<segvars, cachevars, audiovars, cursorSec, isAudioPlaying, paused,
                 delivered, lock, selectedMarker>>

MouseButtonScrubSet ==
  /\ ui.pc = "mb_scrub" /\ lock = "none"
  /\ SetCursor(ui.time)

\* mouseMotion with the left button held below the marker area.
MouseMotionScrub ==
  /\ ui.pc = "idle" /\ lock = "none"
  /\ \E t \in ScrubTimes : SetCursor(t)

\* mouseMotion with the left button held and a marker selected: dTime and
\* pitchBend are written outside the lock, invalidateCache follows.
MouseMotionDrag ==
  /\ ui.pc = "idle"
  /\ selectedMarker # 0
  /\ \E d \in Drags :
       LET m == markers[selectedMarker]
           dt == m.dTime + d[1]
           pb == RSub(m.pitchBend, RInt(d[2]))
       IN /\ DTimeOk(dt) /\ PitchBendOk(pb)
          /\ markers' = [markers EXCEPT ![selectedMarker] =
                            [m EXCEPT !.dTime = dt, !.pitchBend = pb]]
  /\ ui' = [Idle EXCEPT !.pc = "inval"]
  /\ UNCHANGED <<segvars, cachevars, playvars, selectedMarker>>

\* draw: the "0##dt" button and the "dt" field, outside the lock.
DrawZeroDt ==
  /\ ui.pc = "idle"
  /\ selectedMarker # 0
  /\ markers' = [markers EXCEPT ![selectedMarker].dTime = 0]
  /\ ui' = [Idle EXCEPT !.pc = "inval"]
  /\ UNCHANGED <<segvars, cachevars, playvars, selectedMarker>>

DrawInputDt ==
  /\ ui.pc = "idle"
  /\ selectedMarker # 0
  /\ \E v \in DTimeInputs : markers' = [markers EXCEPT ![selectedMarker].dTime = v]
  /\ ui' = [Idle EXCEPT !.pc = "inval"]
  /\ UNCHANGED <<segvars, cachevars, playvars, selectedMarker>>

\* draw: the "0##pitchBend" button and the "pitch bend" field, outside the lock.
DrawZeroPitchBend ==
  /\ ui.pc = "idle"
  /\ selectedMarker # 0
  /\ markers' = [markers EXCEPT ![selectedMarker].pitchBend = RInt(0)]
  /\ ui' = [Idle EXCEPT !.pc = "inval"]
  /\ UNCHANGED <<segvars, cachevars, playvars, selectedMarker>>

DrawInputPitchBend ==
  /\ ui.pc = "idle"
  /\ selectedMarker # 0
  /\ \E v \in PitchBendInputs :
       markers' = [markers EXCEPT ![selectedMarker].pitchBend = RInt(v)]
  /\ ui' = [Idle EXCEPT !.pc = "inval"]
  /\ UNCHANGED <<segvars, cachevars, playvars, selectedMarker>>

\* glDraw: lock; time2Sample(left), time2Sample(right); unlock, per column.
GlDrawWaveform ==
  /\ ui.pc = "idle" /\ lock = "none"
  /\ \E t \in ViewTimes :
       LET l == time2Sample(t, markers, Caches)
           r == time2Sample(t + ColumnTime, markers, l.c)
       IN SetCaches(r.c)
  /\ UNCHANGED <<segvars, markers, playvars, uivars>>

\* glDraw: lock; time2PitchBend(time); unlock, per column.
GlDrawPitchBend ==
  /\ ui.pc = "idle" /\ lock = "none"
  /\ \E t \in ViewTimes : SetCaches(time2PitchBend(t, markers, size(data), Caches).c)
  /\ UNCHANGED <<segvars, markers, playvars, uivars>>

\* drawMarkers: sample2Time of every marker, outside the lock.
DrawMarkers ==
  /\ ui.pc = "idle"
  /\ markers # <<>>
  /\ SetCaches(DrawMarkersFrom(markers, 1, Caches))
  /\ UNCHANGED <<segvars, markers, playvars, uivars>>

\* togglePlay: isAudioPlaying flipped outside the lock; the device is resumed
\* when the result is Playing.
TogglePlay ==
  /\ ui.pc = "idle"
  /\ isAudioPlaying' = ~isAudioPlaying
  /\ paused' = IF isAudioPlaying' THEN FALSE ELSE paused
  /\ delivered' = 0
  /\ UNCHANGED <<segvars, warpvars, audiovars, cursorSec, lock, uivars>>

\* cursorLeft and cursorRight: the cursor moved by 4 * rangeTime / Width.
CursorLeft ==
  /\ ui.pc = "idle" /\ lock = "none"
  /\ SetCursor(cursorSec - CursorStep)

CursorRight ==
  /\ ui.pc = "idle" /\ lock = "none"
  /\ SetCursor(cursorSec + CursorStep)

\* The steps of the UI thread that touch markers or caches outside the lock.
UiUnlocked ==
  \/ MouseButtonLeftFind \/ MouseButtonLeftSelect \/ MouseButtonRightFind
  \/ MouseMotionDrag \/ DrawZeroDt \/ DrawInputDt \/ DrawZeroPitchBend \/ DrawInputPitchBend
  \/ DrawMarkers

\* --------------------------------------------------------------- documents
\* The grains preproc builds when every estimate returns g.
RECURSIVE SegmentFrom(_, _, _, _, _)
SegmentFrom(d, p, st, g, acc) ==
  IF ~SegGuard(d, st, g) THEN acc
  ELSE LET e == GrainEnd(d, p, st, g) IN
       IF e = -1 THEN acc ELSE SegmentFrom(d, p, e, g, Append(acc, Grain(st, e, g)))

NoCaches ==
  /\ sample2TimeCache = <<>>
  /\ time2SampleCache = <<>>
  /\ time2PitchBendCache = <<>>

\* The state once a document is loaded (exportFile: cleanup, loadAudioFile,
\* markers.clear, preproc) with the device asking for d samples per callback.
Loaded(d) ==
  /\ segpc = "done"
  /\ \E g \in estimateGrainSize :
       /\ grainSize = g
       /\ grains = SegmentFrom(data, past, 0, g, <<>>)
  /\ start = IF grains = <<>> THEN 0 ELSE grains[Len(grains)].start + grains[Len(grains)].len
  /\ nextEstimation = GrainSpectrSize
  /\ markers = <<>>
  /\ NoCaches
  /\ cursorSec = 0
  /\ restWav = <<>>
  /\ prevGrain = [start |-> -1, len |-> 0]
  /\ dur = d
  /\ w = [k \in WCells(d) |-> Stale]
  /\ ret = "none"
  /\ delivered = 0
  /\ dropped = 0
  /\ lock = "none"
  /\ selectedMarker = 0
  /\ ui = Idle

\* ---------------------------------------------------------- specifications
\* Segmentation alone, over every buffer of up to MaxLen samples.
SegInit ==
  /\ \E n \in 1 .. MaxLen : data \in Buffers(n)
  /\ past \in Buffers(PastLen)
  /\ grains = <<>>
  /\ segpc = "init"
  /\ start = 0
  /\ grainSize = preferredGrainSize
  /\ nextEstimation = GrainSpectrSize
  /\ markers = <<>>
  /\ NoCaches
  /\ cursorSec = 0
  /\ isAudioPlaying = FALSE
  /\ restWav = <<>>
  /\ prevGrain = [start |-> -1, len |-> 0]
  /\ paused = TRUE
  /\ dur = MaxDur
  /\ w = [k \in WCells(MaxDur) |-> Stale]
  /\ ret = "none"
  /\ delivered = 0
  /\ dropped = 0
  /\ lock = "none"
  /\ selectedMarker = 0
  /\ ui = Idle

SegNext == PreprocBegin \/ PreprocIter \/ PreprocEnd

SpecSeg == SegInit /\ [][SegNext]_vars

\* Playback alone: a buffer without markers, Playing from cursorSec = 0, and
\* no input but the device's callbacks.
PlayInit ==
  /\ \E n \in 2 .. MaxLen : data \in Buffers(n)
  /\ past \in Buffers(PastLen)
  /\ \E d \in 1 .. MaxDur : Loaded(d)
  /\ isAudioPlaying = TRUE
  /\ paused = FALSE

PlayNext == AudioCallback \/ Playback

SpecPlay == PlayInit /\ [][PlayNext]_vars

\* The editor with one document loaded: the UI thread's handlers and the
\* audio thread's callbacks, interleaved.
TheDocument == [i \in 0 .. DocLen - 1 |-> IF i % 2 = 0 THEN -1 ELSE 1]

Init ==
  /\ data = TheDocument
  /\ past = [i \in 0 .. PastLen - 1 |-> 1]
  /\ Loaded(2)
  /\ grainSize = preferredGrainSize
  /\ isAudioPlaying = FALSE
  /\ paused = TRUE

Next ==
  \/ AudioCallback \/ Playback
  \/ MouseButtonLeft \/ MouseButtonLeftSample \/ MouseButtonLeftFind \/ MouseButtonLeftAdd
  \/ InvalidateCache \/ MouseButtonLeftSelect
  \/ MouseButtonRight \/ MouseButtonRightFind \/ MouseButtonRightErase
  \/ MouseButtonScrub \/ MouseButtonScrubSet \/ MouseMotionScrub
  \/ MouseMotionDrag \/ DrawZeroDt \/ DrawInputDt \/ DrawZeroPitchBend \/ DrawInputPitchBend
  \/ GlDrawWaveform \/ GlDrawPitchBend \/ DrawMarkers
  \/ TogglePlay \/ CursorLeft \/ CursorRight

Spec == Init /\ [][Next]_vars

\* ================================================================== claims

\* The times whose cache key is k.
TickOf(k) == {t \in k * TimeScale .. k * TimeScale + TimeScale - 1 : t > 0}

\* A query against Uncached computes its value from the marker list.
Uncached == [s2t |-> <<>>, t2s |-> <<>>, t2pb |-> <<>>]

\* Every entry of the three caches is the value the marker list as it is now
\* gives for a query with the entry's key.
CachesFresh ==
  /\ \A k \in DOMAIN sample2TimeCache :
       sample2TimeCache[k] = sample2Time(k, markers, Uncached).v
  /\ \A k \in DOMAIN time2SampleCache :
       \E t \in TickOf(k) : time2SampleCache[k] = time2Sample(t, markers, Uncached).v
  /\ \A k \in DOMAIN time2PitchBendCache :
       \E t \in TickOf(k) :
         time2PitchBendCache[k] = time2PitchBend(t, markers, size(data), Uncached).v

\* C1: a playback callback never runs between a change of the marker list and
\* the clearing of the caches: while the audio thread holds the lock, no cache
\* holds an entry computed from an earlier marker list.
C1_PlaybackSeesFreshCaches == lock = "audio" => CachesFresh

C3_UiAccessUnderLock == [][UiUnlocked => lock # "audio"]_vars

\* C4: playing a buffer of N samples without markers from cursor 0, the engine
\* has delivered exactly N samples when it is Stopped, and it is not Stopped
\* before the cursor has reached sample N - 1.
C4_DeliversWholeBuffer ==
  ~isAudioPlaying =>
    /\ delivered = size(data)
    /\ cursorSec >= (size(data) - 1) * TimeScale

\* C5: the residual samples held when a Playing callback ends in a grain
\* lookup miss are delivered before the output goes silent: the callback
\* that follows the miss clears no undelivered sample.
C5_ResidualDrainedOnMiss == [][(ret = "miss" /\ Playback) => dropped' = 0]_vars

\* C6: a callback executed in Stopped state leaves the residual buffer empty
\* and the dur samples of its output buffer zero, whatever stopped the engine
\* and whatever the residual held.
C6_StoppedCallbackSilent ==
  ret = "stopped" => /\ restWav = <<>>
                     /\ \A k \in 0 .. dur - 1 : w[k] = Zero

\* A Stopped callback has run on a residual that was not empty.
C6_Witness == ret = "stopped" /\ dropped > 0 /\ lock = "none"

\* The cursor lies outside [0, duration()), as playback evaluates it.
CursorOutOfRange ==
  cursorSec < 0 \/ cursorSec >= duration(markers, size(data), Caches).v

\* C7 (as claimed): a toggle issued in Stopped state with the cursor outside
\* [0, duration()) leaves isAudioPlaying false.
C7_ToggleOnlyInRange ==
  [][(TogglePlay /\ ~isAudioPlaying /\ CursorOutOfRange) => ~isAudioPlaying']_vars

\* C7 (amended): a toggle issued in Stopped state sets isAudioPlaying wherever
\* the cursor lies and resumes the device; it is the playback callback that
\* finds the cursor outside [0, duration()): it resets isAudioPlaying, pauses
\* the device, delivers no sample and leaves the cursor where it is.
C7_ToggleStartsCallbackStops ==
  [][/\ (TogglePlay /\ ~isAudioPlaying) => (isAudioPlaying' /\ ~paused')
     /\ (Playback /\ CursorOutOfRange) =>
          /\ ~isAudioPlaying' /\ paused'
          /\ ret' = "stopped"
          /\ cursorSec' = cursorSec
          /\ delivered' = delivered
          /\ \A k \in 0 .. dur - 1 : w'[k] = Zero]_vars

\* The engine is Playing with the cursor at or past duration(), and no
\* callback has run since the session began: a toggle put it there.
C7_Witness ==
  /\ isAudioPlaying /\ ~paused
  /\ ret = "none"
  /\ CursorOutOfRange

\* The number of samples a callback wrote to the output from the residual.
Written(wv) == Cardinality({k \in DOMAIN wv : wv[k][1] = "smp"})

\* C8: a playback callback advances cursorSec by exactly the number of samples
\* it wrote to the output from the residual, over sampleRate; a Stopped
\* callback and a callback ending in a grain lookup miss leave it unchanged.
C8_CursorAdvancesByDelivered ==
  [][Playback =>
       /\ cursorSec' = cursorSec + Written(w') * TimeScale
       /\ ret' \in {"stopped", "miss"} => cursorSec' = cursorSec]_vars

\* A callback has delivered a frame and kept produced samples in the residual.
C8_Witness ==
  /\ ret = "delivered"
  /\ Written(w) = dur
  /\ restWav # <<>>
  /\ cursorSec > 0

\* data[i] < 0 and data[i + 1] >= 0, an index at or past data.size() standing
\* for the memory the search read there.
TrueCrossing(i) == At(data, past, i) < 0 /\ At(data, past, i + 1) >= 0

GrainIdx == 1 .. Len(grains)
EndOf(gr) == gr.start + gr.len
\* Whether the grain was emitted by the fallback scan (it ends at or after
\* start + grainSize + grainSize / 2) rather than by the closest-first search.
ByFallback(gr) ==
  LET g == gr.len - gr.drift IN gr.len >= g + g \div 2 /\ gr.len > g + (g - 1) \div 2

C10_Contiguous ==
  /\ grains # <<>> => grains[1].start = 0
  /\ \A i \in GrainIdx :
       /\ grains[i].len > 0
       /\ i < Len(grains) => grains[i + 1].start = EndOf(grains[i])

C10_Witness ==
  /\ segpc = "done"
  /\ Len(grains) >= 3
  /\ \E i \in GrainIdx : ByFallback(grains[i])
  /\ \E i \in GrainIdx : ~ByFallback(grains[i])

\* The grain segmentation emitted last.
LastGrain == grains[Len(grains)]

\* C11: when segmentation has stopped before the end of the buffer, the tail
\* that no grain covers is excluded from duration(): with no markers,
\* duration() is the end index of the last grain over sampleRate.
C11_DurationExcludesTail ==
  (segpc = "done" /\ markers = <<>> /\ grains # <<>> /\ EndOf(LastGrain) < size(data) - 1)
    => duration(markers, size(data), Caches).v = EndOf(LastGrain) * TimeScale

\* ------------------------------------------- the warp map in double arithmetic
\* sample2Time and time2Sample above compute in exact arithmetic.  Where a
\* double is converted to int the rounding of the double operations decides
\* the result, so the queries are repeated here with every operation rounded
\* to a significand of Precision bits (53 in the source), to nearest, ties to
\* even.  A double is a fraction <<n, d>>, a time is in seconds.

\* a / d brought into [2^(Precision-1), 2^Precision) by doubling a or d:
\* <<a, d, ka, kd>> with the original a / d = (a / d now) * kd / ka.
RECURSIVE FlScale(_, _, _, _)
FlScale(a, d, ka, kd) ==
  IF a >= d * Pow2(Precision) THEN FlScale(a, 2 * d, ka, 2 * kd)
  ELSE IF a < d * Pow2(Precision - 1) THEN FlScale(2 * a, d, 2 * ka, kd)
  ELSE <<a, d, ka, kd>>

\* The significand q = s[1] / s[2] rounded to nearest, ties to even, with its
\* sign and exponent put back.
FlNearest(s, negative) ==
  LET q == s[1] \div s[2]
      r == s[1] % s[2]
      m == IF 2 * r > s[2] \/ (2 * r = s[2] /\ q % 2 = 1) THEN q + 1 ELSE q
  IN RNorm((IF negative THEN -1 ELSE 1) * m * s[4], s[3])

\* The double nearest to the fraction x (x and its scaling are evaluated once).
FlRound(x) ==
  CHOOSE r \in UNION {IF v[1] = 0 THEN {RInt(0)}
                      ELSE {FlNearest(s, v[1] < 0) : s \in {FlScale(Abs(v[1]), v[2], 1, 1)}}
                      : v \in {x}} : TRUE

FlInt(k) == FlRound(RInt(k))
FlAdd(a, b) == FlRound(RAdd(a, b))
FlSub(a, b) == FlRound(RSub(a, b))
FlMul(a, b) == FlRound(RMul(a, b))
FlDiv(a, b) == FlRound(RDiv(a, b))
\* static_cast<int>(x)
ToInt(x) == TruncDiv(x[1], x[2])

\* static_cast<int>(val * sampleRate)
FlTimeKey(val) == ToInt(FlMul(val, FlInt(sampleRate)))

\* The loop of sample2Time from marker i on, in double arithmetic.
RECURSIVE FlS2TFrom(_, _, _, _, _)
FlS2TFrom(mk, i, prevSample, prevTime, val) ==
  IF i > Len(mk)
    THEN FlAdd(prevTime, FlDiv(FlInt(val - prevSample), FlInt(sampleRate)))
  ELSE LET span == FlInt(mk[i].sample - prevSample)
           rightTime == FlAdd(FlAdd(prevTime, FlDiv(span, FlInt(sampleRate))), mk[i].dTime)
       IN IF val > prevSample /\ val <= mk[i].sample
            THEN FlAdd(prevTime,
                       FlDiv(FlMul(FlInt(val - prevSample), FlSub(rightTime, prevTime)), span))
            ELSE FlS2TFrom(mk, i + 1, mk[i].sample, rightTime, val)

FlSample2Time(val, mk, c) ==
  IF val <= 0 THEN [v |-> FlDiv(FlInt(val), FlInt(sampleRate)), c |-> c]
  ELSE IF val \in DOMAIN c.s2t THEN [v |-> c.s2t[val], c |-> c]
  ELSE LET r == FlS2TFrom(mk, 1, 0, RInt(0), val) IN
       [v |-> r, c |-> [c EXCEPT !.s2t = Put(@, val, r)]]

\* The loop of time2Sample from marker i on, in double arithmetic; the double
\* result is converted to int on return and in the cache.
RECURSIVE FlT2SFrom(_, _, _, _, _)
FlT2SFrom(mk, i, prevSample, prevTime, val) ==
  IF i > Len(mk)
    THEN ToInt(FlAdd(FlInt(prevSample), FlMul(FlSub(val, prevTime), FlInt(sampleRate))))
  ELSE LET span == FlInt(mk[i].sample - prevSample)
           rightTime == FlAdd(FlAdd(prevTime, FlDiv(span, FlInt(sampleRate))), mk[i].dTime)
       IN IF RLess(prevTime, val) /\ ~RLess(rightTime, val)
            THEN ToInt(FlAdd(FlInt(prevSample),
                             FlDiv(FlMul(FlSub(val, prevTime), span),
                                   FlSub(rightTime, prevTime))))
            ELSE FlT2SFrom(mk, i + 1, mk[i].sample, rightTime, val)

FlTime2Sample(val, mk, c) ==
  IF ~RLess(RInt(0), val) THEN [v |-> FlTimeKey(val), c |-> c]
  ELSE IF FlTimeKey(val) \in DOMAIN c.t2s THEN [v |-> c.t2s[FlTimeKey(val)], c |-> c]
  ELSE LET r == FlT2SFrom(mk, 1, 0, RInt(0), val) IN
       [v |-> r, c |-> [c EXCEPT !.t2s = Put(@, FlTimeKey(val), r)]]

\* A caller resolves a sample to its time and the time back to a sample.
RoundTripSample ==
  /\ \E s \in 0 .. size(data) - 1 :
       LET t == FlSample2Time(s, markers, Caches)
           r == FlTime2Sample(t.v, markers, t.c)
       IN /\ SetCaches(r.c)
          /\ ui' = [pc |-> "trip_sample", arg |-> s, mid |-> t.v, res |-> r.v]
  /\ UNCHANGED <<segvars, markers, playvars, selectedMarker>>

\* A caller resolves a time on the sample-rate grid to its sample and the
\* sample back to a time.
RoundTripTime ==
  /\ \E n \in 0 .. size(data) - 1 :
       LET t == FlDiv(FlInt(n), FlInt(sampleRate))
           s == FlTime2Sample(t, markers, Caches)
           r == FlSample2Time(s.v, markers, s.c)
       IN /\ SetCaches(r.c)
          /\ ui' = [pc |-> "trip_time", arg |-> t, mid |-> s.v, res |-> r.v]
  /\ UNCHANGED <<segvars, markers, playvars, selectedMarker>>

\* The document without markers, queried in any order.
RoundInit ==
  /\ data = TheDocument
  /\ past = [i \in 0 .. PastLen - 1 |-> 1]
  /\ Loaded(1)
  /\ grainSize = preferredGrainSize
  /\ isAudioPlaying = FALSE
  /\ paused = TRUE

RoundNext == RoundTripSample \/ RoundTripTime

SpecRound == RoundInit /\ [][RoundNext]_vars

\* C12: with an empty marker list time2Sample(sample2Time(s)) = s for every
\* sample s of the buffer, and sample2Time(time2Sample(t)) = t for every time
\* t = n / sampleRate, whatever was queried and cached before.
C12_RoundTripWithoutMarkers ==
  (markers = <<>> /\ ui.pc \in {"trip_sample", "trip_time"}) => ui.res = ui.arg

\* ------------------------------------------------- the warp map's queries
\* The warp map of an edited document, in exact arithmetic: every sorted
\* marker list of up to WarpMarkers markers on the buffer's samples, each
\* dragged by WarpDT sample periods to either side or not at all (mouseMotion sets no
\* limit), queried in any order with the caches the queries leave behind.
WarpDTimes == {-WarpDT * TimeScale, 0, WarpDT * TimeScale}
WarpPitchBends == {RInt(0), RInt(12)}
WarpMarker(s, dt, pb) == [sample |-> s, note |-> RInt(0), dTime |-> dt, pitchBend |-> pb]
WarpMarkersOn(n) ==
  {WarpMarker(s, dt, pb) : s \in 0 .. n - 1, dt \in WarpDTimes, pb \in WarpPitchBends}
WarpMarkerLists(n) ==
  {mk \in UNION {[1 .. k -> WarpMarkersOn(n)] : k \in 0 .. WarpMarkers} :
     \A i \in 1 .. Len(mk) - 1 : mk[i].sample <= mk[i + 1].sample}
\* Times on the grid of sample periods.
WarpTimes == {k * TimeScale : k \in 0 .. DocLen + WarpDT}

CachedEntries(c) ==
  Cardinality(DOMAIN c.s2t) + Cardinality(DOMAIN c.t2s) + Cardinality(DOMAIN c.t2pb)

Query(pc, arg, mid, r) ==
  /\ SetCaches(r.c)
  /\ ui' = [pc |-> pc, arg |-> arg, mid |-> mid, res |-> r.v]
  /\ UNCHANGED <<segvars, markers, playvars, selectedMarker>>

QueryDuration ==
  /\ CachedEntries(Caches) < MaxCached
  /\ Query("dur", size(data) - 1, 0, duration(markers, size(data), Caches))

QueryTime2PitchBend ==
  /\ CachedEntries(Caches) < MaxCached
  /\ \E t \in WarpTimes : Query("t2pb", t, 0, time2PitchBend(t, markers, size(data), Caches))

\* time2Sample(sample2Time(s)): mid is the time, res the sample.
QueryRoundTrip ==
  /\ CachedEntries(Caches) < MaxCached
  /\ \E s \in 0 .. size(data) - 1 :
       LET t == sample2Time(s, markers, Caches) IN
       Query("trip", s, t.v, time2Sample(t.v, markers, t.c))

WarpInit ==
  /\ data = TheDocument
  /\ past = [i \in 0 .. PastLen - 1 |-> 1]
  /\ segpc = "done"
  /\ grainSize = preferredGrainSize
  /\ grains = SegmentFrom(data, past, 0, grainSize, <<>>)
  /\ start = IF grains = <<>> THEN 0 ELSE grains[Len(grains)].start + grains[Len(grains)].len
  /\ nextEstimation = GrainSpectrSize
  /\ markers \in WarpMarkerLists(size(data))
  /\ NoCaches
  /\ cursorSec = 0
  /\ isAudioPlaying = FALSE
  /\ restWav = <<>>
  /\ prevGrain = [start |-> -1, len |-> 0]
  /\ paused = TRUE
  /\ dur = 1
  /\ w = [k \in WCells(1) |-> Stale]
  /\ ret = "none"
  /\ delivered = 0
  /\ dropped = 0
  /\ lock = "none"
  /\ selectedMarker = 0
  /\ ui = Idle

WarpNext == QueryDuration \/ QueryTime2PitchBend \/ QueryRoundTrip

SpecWarp == WarpInit /\ [][WarpNext]_vars

\* C13: with the single marker {M, D}, 0 <= M < N, sample2Time(M) is
\* M / sampleRate + D, whatever D is.
C13_MarkerSampleAtEditedTime ==
  (ui.pc = "trip" /\ Len(markers) = 1 /\ ui.arg = markers[1].sample)
    => ui.mid = markers[1].sample * TimeScale + markers[1].dTime

\* C14: a marker with dTime D on a sample strictly inside the buffer makes
\* duration() exactly D longer than it is without that marker, whatever the
\* marker's pitchBend.
C14_MarkerAddsItsDTime ==
  ui.pc = "dur" =>
    \A i \in 1 .. Len(markers) :
      (0 < markers[i].sample /\ markers[i].sample < size(data) - 1)
        => ui.res - S2TFrom(Remove(markers, i), 1, 0, 0, size(data) - 1) = markers[i].dTime

C14_Witness ==
  /\ ui.pc = "dur"
  /\ Len(markers) = 2
  /\ 0 < markers[1].sample /\ markers[1].sample < size(data) - 1
  /\ markers[1].dTime < 0
  /\ markers[1].pitchBend # RInt(0)
  /\ markers[2].dTime > 0

\* The edited time of marker i: its sample at the nominal rate and the dTime
\* of every marker up to it; 0 for i = 0, the start of the document.
RECURSIVE EditedTime(_, _)
EditedTime(mk, i) ==
  IF i = 0 THEN 0
  ELSE EditedTime(mk, i - 1) + (mk[i].sample - (IF i = 1 THEN 0 ELSE mk[i - 1].sample)) * TimeScale
         + mk[i].dTime
\* The pitch bend at marker i, 0 at the start of the document.
BendOf(mk, i) == IF i = 0 THEN RInt(0) ELSE mk[i].pitchBend
\* t lies in the interval that ends at marker i.
InInterval(mk, i, t) == EditedTime(mk, i - 1) < t /\ t <= EditedTime(mk, i)

C16_IdentityBeforeFirstMarker ==
  (ui.pc = "trip" /\ markers # <<>> /\ 0 < ui.arg /\ ui.arg < markers[1].sample)
    => ui.mid = ui.arg * TimeScale

\* C16 (amended): for every sample s with 0 < s < markers[0].sample,
\* sample2Time(s) is s * T / markers[0].sample, where T is the first marker's
\* edited time markers[0].sample / sampleRate + markers[0].dTime: the dTime is
\* spread evenly over the samples before the marker.
C16_FirstIntervalScaled ==
  (ui.pc = "trip" /\ markers # <<>> /\ 0 < ui.arg /\ ui.arg < markers[1].sample)
    => ui.mid * markers[1].sample = ui.arg * EditedTime(markers, 1)

C16_Witness ==
  /\ ui.pc = "trip"
  /\ markers # <<>>
  /\ 0 < ui.arg /\ ui.arg < markers[1].sample
  /\ markers[1].dTime > 0
  /\ ui.mid > ui.arg * TimeScale

\* C17: for every marker list the input commands can build, negative dTime
\* included, sample2Time is monotone non-decreasing: the time of a sample is
\* not after the time of the next one.
C17_Sample2TimeMonotone ==
  (ui.pc = "trip" /\ ui.arg + 1 < size(data))
    => ui.mid <= sample2Time(ui.arg + 1, markers, Caches).v

\* The marker list's edited times increase strictly from the start of the
\* document on: the map from samples to times is one to one.
StrictlyIncreasing(mk) ==
  \A i \in 1 .. Len(mk) : EditedTime(mk, i - 1) < EditedTime(mk, i) /\ mk[i].sample > 0

\* C18: for every sorted marker list and every sample s of the buffer,
\* time2Sample(sample2Time(s)) = s, also when a dTime compresses an interval
\* so that several samples share one sample-rate tick of edited time, and
\* whatever was queried before.  Stated for the lists on which sample2Time
\* is one to one, the only ones that have an inverse.
C18_Time2SampleInvertsSample2Time ==
  (ui.pc = "trip" /\ StrictlyIncreasing(markers)) => ui.res = ui.arg

\* ------------------------------------------------------ loading a document
\* The files the session can open after its first document: one that cannot
\* be opened (or has no stream info, no audio stream, no decoder: every early
\* return of loadAudioFile before data.clear()), one whose decoding breaks
\* off part-way, and one that decodes to the end.
SecondDocument == [i \in 0 .. DocLen - 1 |-> IF i % 3 = 0 THEN -1 ELSE 1]
Prefix(d, n) == [i \in 0 .. n - 1 |-> d[i]]
Files ==
  {[opened |-> FALSE, complete |-> FALSE, samples |-> SecondDocument],
   [opened |-> TRUE, complete |-> FALSE, samples |-> Prefix(SecondDocument, DocLen - 2)],
   [opened |-> TRUE, complete |-> TRUE, samples |-> SecondDocument]}

\* loadAudioFile: the buffer it leaves behind.
loadAudioFile(f, d) == IF f.opened THEN f.samples ELSE d

\* exportFile(f): cleanup (the device is closed, the cursor rewound),
\* loadAudioFile, markers.clear, preproc (selectedMarker, the grains, a new
\* device, paused).  The caches, the residual buffer, prevGrain and
\* isAudioPlaying are not assigned.  The session is followed up to the
\* return of exportFile: the UI thread stays at "loaded".
exportFile(f) ==
  /\ ui.pc = "idle" /\ lock = "none"
  /\ data' = loadAudioFile(f, data)
  /\ past' \in Buffers(PastLen)
  /\ cursorSec' = 0
  /\ markers' = <<>>
  /\ selectedMarker' = 0
  /\ segpc' = "done"
  /\ \E g \in estimateGrainSize :
       /\ grainSize' = g
       /\ grains' = SegmentFrom(data', past', 0, g, <<>>)
  /\ start' = IF grains' = <<>> THEN 0 ELSE grains'[Len(grains')].start + grains'[Len(grains')].len
  /\ nextEstimation' = GrainSpectrSize
  /\ paused' = TRUE
  /\ ret' = "none"
  /\ delivered' = 0
  /\ dropped' = 0
  /\ ui' = [Idle EXCEPT !.pc = "loaded"]
  /\ UNCHANGED <<cachevars, isAudioPlaying, restWav, prevGrain, dur, w, lock>>

ExportFile == \E f \in Files : exportFile(f)

\* The session on the first document, as far as it places and drags a marker
\* and plays, and the load that ends it.
LoadNext ==
  \/ AudioCallback \/ Playback
  \/ MouseButtonLeft \/ MouseButtonLeftSample \/ MouseButtonLeftFind \/ MouseButtonLeftAdd
  \/ InvalidateCache \/ MouseButtonLeftSelect
  \/ MouseMotionDrag
  \/ TogglePlay
  \/ ExportFile

SpecLoad == Init /\ [][LoadNext]_vars

\* A file whose loading succeeds.
Loads(f) == f.opened /\ f.complete

\* C19: when exportFile returns from loading a new audio file, the core is
\* reset: no markers, no entry in any of the three warp caches, isAudioPlaying
\* false, the residual buffer empty, the grain index built from the new
\* buffer alone, and duration() is that of the new buffer without markers.
C19_LoadResetsCore ==
  [][(\E f \in Files : Loads(f) /\ exportFile(f))
       => /\ markers' = <<>>
          /\ NoCaches'
          /\ ~isAudioPlaying'
          /\ restWav' = <<>>
          /\ grains' = SegmentFrom(data', past', 0, grainSize', <<>>)
          /\ duration(markers', size(data'), Caches').v = (size(data') - 1) * TimeScale]_vars

\* C20: when loading fails (the file cannot be opened, or decoding breaks off
\* part-way), the core is left clean and empty: the sample buffer holds
\* neither the previous document's samples nor a partly decoded buffer, and
\* no grains are built.
C20_FailedLoadLeavesCoreEmpty ==
  [][(\E f \in Files : ~Loads(f) /\ exportFile(f)) => (size(data') = 0 /\ grains' = <<>>)]_vars

\* ------------------------------------------------------ the marker edits
\* The session as far as it edits the marker list: clicks that insert, select
\* and remove markers, drags of the selected marker, and the drawing that
\* reads the list, with up to EditMarkers markers.
MouseButtonLeftEdit == MouseButtonLeftUpTo(EditMarkers)

EditNext ==
  \/ MouseButtonLeftEdit \/ MouseButtonLeftSample \/ MouseButtonLeftFind \/ MouseButtonLeftAdd
  \/ InvalidateCache \/ MouseButtonLeftSelect
  \/ MouseButtonRight \/ MouseButtonRightFind \/ MouseButtonRightErase
  \/ MouseMotionDrag \/ DrawMarkers

SpecEdit == Init /\ [][EditNext]_vars

\* C21: the marker list is sorted ascending by sample whenever the UI thread
\* is outside its critical sections (every state of the model): no read by
\* sample2Time, time2Sample or time2PitchBend sees an unsorted list.
C21_MarkersSorted ==
  \A i \in 1 .. Len(markers) - 1 : markers[i].sample <= markers[i + 1].sample

\* Two markers on different samples, the one inserted later first.
C21_Witness ==
  /\ Len(markers) = 2
  /\ markers[1].sample < markers[2].sample
  /\ markers[1].dTime = 0 /\ markers[2].dTime > 0
  /\ ui.pc = "idle"

\* ---------------------------------------------------------- memoization
\* time2Sample and time2PitchBend queried in any order at times half a sample
\* period apart, so that two times share one cache key.
MemoTimes == {k * (TimeScale \div 2) : k \in 1 .. 2 * MemoSpan}

MemoTime2Sample ==
  /\ CachedEntries(Caches) < MemoCached
  /\ \E t \in MemoTimes : Query("memo_t2s", t, 0, time2Sample(t, markers, Caches))

MemoTime2PitchBend ==
  /\ CachedEntries(Caches) < MemoCached
  /\ \E t \in MemoTimes :
       Query("memo_t2pb", t, 0, time2PitchBend(t, markers, size(data), Caches))

MemoNext == MemoTime2Sample \/ MemoTime2PitchBend

SpecMemo == WarpInit /\ [][MemoNext]_vars

\* C22: for a fixed marker list time2Sample(t) and time2PitchBend(t) return
\* what the computation without caches returns for t, whatever was queried
\* before, also for two times that share one cache key.
C22_MemoizationTransparent ==
  /\ ui.pc = "memo_t2s" => ui.res = time2Sample(ui.arg, markers, Uncached).v
  /\ ui.pc = "memo_t2pb" => ui.res = time2PitchBend(ui.arg, markers, size(data), Uncached).v

\* ------------------------------------------------------------ the fill loop
\* Playing callbacks on a document with up to one marker of any pitch bend,
\* among them one below the range in which pow(2, pitchBend / 12) is not 0.
FillPitchBends == {RInt(12 * k) : k \in {-4 * MaxExponent, -1, 0, 1}}
FillMarkerLists(n) ==
  {<<>>} \cup {<<WarpMarker(s, dt, pb)>> : s \in 0 .. n - 1, dt \in WarpDTimes,
                                           pb \in FillPitchBends}

FillInit ==
  /\ data \in {TheDocument, SecondDocument}
  /\ past = [i \in 0 .. PastLen - 1 |-> 1]
  /\ segpc = "done"
  /\ grainSize \in estimateGrainSize
  /\ grains = SegmentFrom(data, past, 0, grainSize, <<>>)
  /\ start = IF grains = <<>> THEN 0 ELSE grains[Len(grains)].start + grains[Len(grains)].len
  /\ nextEstimation = GrainSpectrSize
  /\ markers \in FillMarkerLists(size(data))
  /\ NoCaches
  /\ cursorSec = 0
  /\ isAudioPlaying = TRUE
  /\ restWav = <<>>
  /\ prevGrain = [start |-> -1, len |-> 0]
  /\ paused = FALSE
  /\ dur \in 1 .. MaxDur
  /\ w = [k \in WCells(dur) |-> Stale]
  /\ ret = "none"
  /\ delivered = 0
  /\ dropped = 0
  /\ lock = "none"
  /\ selectedMarker = 0
  /\ ui = Idle

FillNext == AudioCallback \/ Playback

SpecFill == FillInit /\ [][FillNext]_vars

\* C23: every playback callback returns: each iteration of the fill loop ends
\* on a grain lookup miss or makes the residual longer, for every pitch-bend
\* rate and grain length, so no callback is left in the loop.
C23_CallbackReturns == ret # "hang"

\* The same callbacks with the device's scheduling: while it is not paused the
\* device keeps invoking the callback (WF of AudioCallback), and a callback
\* that was entered runs: Playback is enabled exactly while the lock is held
\* by the audio thread and is the only step that releases it, so
\* WF_vars(Playback) is []<>(lock # "audio").
CallbackRuns == []<>(lock # "audio")

SpecFillFair == SpecFill /\ WF_vars(AudioCallback) /\ CallbackRuns

\* C24: with callbacks invoked again and again and no command from the user,
\* Playing is always followed by Stopped, unless a callback does not return
\* from its fill loop (C23).
C24_PlaybackEnds == isAudioPlaying ~> (~isAudioPlaying \/ ret = "hang")

\* Playback that delivered samples callback by callback and then stopped at
\* the end of a document with a marker.
C24_Witness ==
  /\ ~isAudioPlaying
  /\ ret = "stopped"
  /\ delivered > dur
  /\ markers # <<>>

\* The samples the last callback delivered.
DeliveredCells == {k \in 0 .. dur - 1 : w[k] # Stale}

RECURSIVE S2TDivisors(_, _, _, _, _)
S2TDivisors(mk, i, prevSample, prevTime, val) ==
  IF i > Len(mk) THEN {}
  ELSE LET rightTime == prevTime + (mk[i].sample - prevSample) * TimeScale + mk[i].dTime IN
       IF val > prevSample /\ val <= mk[i].sample
         THEN {mk[i].sample - prevSample}
         ELSE S2TDivisors(mk, i + 1, mk[i].sample, rightTime, val)

sample2TimeDivisors(val, mk, c) ==
  IF val <= 0 \/ val \in DOMAIN c.s2t THEN {} ELSE S2TDivisors(mk, 1, 0, 0, val)

\* (rightTime - prevTime) of the interval the loop of time2Sample or of
\* time2PitchBend hits; the two loops test the same condition.
RECURSIVE T2SDivisors(_, _, _, _, _)
T2SDivisors(mk, i, prevSample, prevTime, val) ==
  IF i > Len(mk) THEN {}
  ELSE LET rightTime == prevTime + (mk[i].sample - prevSample) * TimeScale + mk[i].dTime IN
       IF val > prevTime /\ val <= rightTime
         THEN {rightTime - prevTime}
         ELSE T2SDivisors(mk, i + 1, mk[i].sample, rightTime, val)

time2SampleDivisors(val, mk, c) ==
  IF val <= 0 \/ TimeKey(val) \in DOMAIN c.t2s THEN {} ELSE T2SDivisors(mk, 1, 0, 0, val)

durationDivisors(mk, n, c) == sample2TimeDivisors(n - 1, mk, c)

\* (mutant) a time2PitchBend whose tail divides without the test against
\* duration().
time2PitchBendDivisorsUnguarded(val, mk, n, c) ==
  IF val <= 0 \/ TimeKey(val) \in DOMAIN c.t2pb THEN {}
  ELSE LET r == T2PFrom(mk, 1, 0, 0, RInt(0), val) IN
       IF r.hit THEN T2SDivisors(mk, 1, 0, 0, val)
       ELSE LET d2 == duration(mk, n, c) IN
            durationDivisors(mk, n, c) \cup {d2.v - r.prevTime}

\* time2PitchBend: the interval hit, or else the divisors of the two calls of
\* duration() and (duration() - prevTime) of the tail.
time2PitchBendDivisors(val, mk, n, c) ==
  IF val <= 0 \/ TimeKey(val) \in DOMAIN c.t2pb THEN {}
  ELSE LET r == T2PFrom(mk, 1, 0, 0, RInt(0), val) IN
       IF r.hit THEN T2SDivisors(mk, 1, 0, 0, val)
       ELSE LET d1 == duration(mk, n, c) IN
            IF val > d1.v THEN durationDivisors(mk, n, c)
            ELSE LET d2 == duration(mk, n, d1.c) IN
                 durationDivisors(mk, n, c) \cup durationDivisors(mk, n, d1.c)
                   \cup {d2.v - r.prevTime}

\* Each query leaves its divisors in ui.res and the caches as the call leaves
\* them.
DivSample2Time ==
  /\ CachedEntries(Caches) < MemoCached
  /\ \E s \in 1 .. size(data) :
       Query("div_s2t", s, 0,
             [v |-> sample2TimeDivisors(s, markers, Caches), c |-> sample2Time(s, markers, Caches).c])

DivTime2Sample ==
  /\ CachedEntries(Caches) < MemoCached
  /\ \E t \in WarpTimes :
       Query("div_t2s", t, 0,
             [v |-> time2SampleDivisors(t, markers, Caches), c |-> time2Sample(t, markers, Caches).c])

DivTime2PitchBend ==
  /\ CachedEntries(Caches) < MemoCached
  /\ \E t \in WarpTimes :
       Query("div_t2pb", t, 0,
             [v |-> time2PitchBendDivisors(t, markers, size(data), Caches),
              c |-> time2PitchBend(t, markers, size(data), Caches).c])

DivDuration ==
  /\ CachedEntries(Caches) < MemoCached
  /\ Query("div_dur", size(data) - 1, 0,
           [v |-> durationDivisors(markers, size(data), Caches),
            c |-> duration(markers, size(data), Caches).c])

DivNext == DivSample2Time \/ DivTime2Sample \/ DivTime2PitchBend \/ DivDuration

SpecDiv == WarpInit /\ [][DivNext]_vars

\* C26: sample2Time, time2Sample, time2PitchBend and duration() never divide
\* by zero on a sorted marker list: whenever a division by
\* (marker.sample - prevSample), (rightTime - prevTime) or
\* (duration() - prevTime) executes, the divisor is not zero, also with markers
\* sharing a sample, a marker on the last sample and dTime making an interval
\* empty or of negative length.
C26_DivisorsNonZero ==
  ui.pc \in {"div_s2t", "div_t2s", "div_t2pb", "div_dur"} => 0 \notin ui.res

\* The tail of time2PitchBend divides behind two markers that share a sample,
\* the second one dragged back before the first.
C26_Witness ==
  /\ ui.pc = "div_t2pb"
  /\ Len(markers) = 2
  /\ markers[1].sample = markers[2].sample
  /\ markers[2].dTime < 0
  /\ ui.arg > markers[1].sample * TimeScale + markers[1].dTime
  /\ ui.res # {}

\* ------------------------------------------- the segmentation loop's reads
\* The indices of data one iteration of the segmentation loop reads, in the
\* order of the code: data[idx], then data[idx + 1] when data[idx] < 0 (the
\* right operand of && is evaluated only then), for each idx up to the hit.
RECURSIVE ClosestReads(_, _, _, _, _)
ClosestReads(d, p, st, g, i) ==
  IF i >= g THEN {}
  ELSE LET idx == SearchIdx(st, g, i) IN
       {idx} \cup (IF At(d, p, idx) < 0 THEN {idx + 1} ELSE {})
             \cup (IF isZeroCrossing(d, p, idx) THEN {} ELSE ClosestReads(d, p, st, g, i + 1))

RECURSIVE ScanReads(_, _, _)
ScanReads(d, p, i) ==
  IF i >= size(d) - 1 THEN {}
  ELSE {i} \cup (IF At(d, p, i) < 0 THEN {i + 1} ELSE {})
           \cup (IF isZeroCrossing(d, p, i) THEN {} ELSE ScanReads(d, p, i + 1))

IterReads(d, p, st, g) ==
  ClosestReads(d, p, st, g, 0)
    \cup (IF ClosestFrom(d, p, st, g, 0) = -1 THEN ScanReads(d, p, st + g + g \div 2) ELSE {})

\* C27: the segmentation loop reads data only at indices inside
\* [0, data.size()): every idx and idx + 1 of the closest-first search and
\* every i and i + 1 of the fallback scan of an iteration the loop guard
\* admits.
C27_ReadsInsideBuffer ==
  (segpc = "loop" /\ SegGuard(data, start, grainSize))
    => \A i \in IterReads(data, past, start, grainSize) : 0 <= i /\ i < size(data)

\* C28: a Stopped callback writes only to the dur samples of the output
\* buffer: after it, no cell before w[0] or at or after w[dur] has been
\* written by the zero-fill or by the fade-out loop.
C28_StoppedWritesInsideBuffer ==
  ret = "stopped" => \A k \in DOMAIN w : (k < 0 \/ k >= dur) => w[k] = Stale

====
